---------------------------- MODULE Spec2Model ----------------------------
(***************************************************************************)
(* Model of WhiteChocolateMacademiaNut (src/main.go): a command line       *)
(* client for the remote-debugging port of a Chromium browser.  One        *)
(* invocation runs main() once: for each requested operation it discovers  *)
(* the targets over HTTP, then (for the cookie operations) dials the       *)
(* websocket of the first target, writes one command and, for a dump,      *)
(* reads one message and prints the cookies.                               *)
(*                                                                         *)
(* Strings that are searched (title, url, name, domain, the grep term) are *)
(* sequences of characters; the other strings are opaque values.  A JSON   *)
(* object is the sequence of its members in the order of the text, each a  *)
(* pair <<key, value>> whose key is a sequence of characters.              *)
(***************************************************************************)
EXTENDS Integers, Sequences, FiniteSets, TLC

(***************************************************************************)
(* Bounds of the model.                                                    *)
(***************************************************************************)
MaxTargets == 2        \* longest target list the discovery endpoint returns
MaxCookies == 2        \* longest cookie list a response carries
MaxClockAdvance == 1   \* seconds the wall clock may advance during a dump

(***************************************************************************)
(* Program constants.                                                      *)
(***************************************************************************)
DialTimeoutSecs == 10                    \* context.WithTimeout(.., 10*time.Second)
ReadLimit == 10 * 1024 * 1024            \* conn.SetReadLimit(10 * 1024 * 1024)
TenYears == 10 * 365 * 24 * 60 * 60      \* added to time.Now().Unix()
StartTime == 1700000000                  \* time.Now().Unix() when the process starts

(***************************************************************************)
(* strings.Contains(s, substr), computed as the library does: try every    *)
(* start index from the left and compare the window with substr.           *)
(***************************************************************************)
RECURSIVE IndexFrom(_, _, _)
IndexFrom(s, substr, i) ==
    IF i + Len(substr) > Len(s)
    THEN -1
    ELSE IF SubSeq(s, i + 1, i + Len(substr)) = substr
         THEN i
         ELSE IndexFrom(s, substr, i + 1)

Contains(s, substr) == IndexFrom(s, substr, 0) >= 0

(***************************************************************************)
(* encoding/json.  The decoder walks the members of an object in order;    *)
(* a member whose key equals the tag of a struct field, exactly or under   *)
(* case folding, is stored in that field, so the last such member wins.  A *)
(* field no member names keeps the value it had, the zero value of its     *)
(* type on a fresh struct; members no field declares are dropped.          *)
(***************************************************************************)
UpperLetters == <<"A", "B", "C", "D", "E", "F", "G", "H", "I", "J", "K", "L", "M", "N", "O", "P", "Q", "R", "S", "T", "U", "V", "W", "X", "Y", "Z">>

LowerLetters == <<"a", "b", "c", "d", "e", "f", "g", "h", "i", "j", "k", "l", "m", "n", "o", "p", "q", "r", "s", "t", "u", "v", "w", "x", "y", "z">>

\* the case folding of one character of a key: the letters of ASCII, and
\* the two other runes that fold onto a letter, the Kelvin sign and the
\* long s, written here by their code points
FoldRune(c) ==
    IF \E i \in 1..26 : LowerLetters[i] = c
    THEN UpperLetters[CHOOSE i \in 1..26 : LowerLetters[i] = c]
    ELSE IF c = "U+212A" THEN "K"
    ELSE IF c = "U+017F" THEN "S"
    ELSE c

FoldName(name) == [i \in 1..Len(name) |-> FoldRune(name[i])]

\* the key of a member names the field with this tag
EqualFold(key, tag) ==
    \/ key = tag
    \/ Len(key) = Len(tag) /\ FoldName(key) = FoldName(tag)

\* the struct tags of DebugData
TagDescription == <<"d", "e", "s", "c", "r", "i", "p", "t", "i", "o", "n">>

TagDevtoolsFrontendUrl == <<"d", "e", "v", "t", "o", "o", "l", "s", "F", "r", "o", "n", "t", "e", "n", "d", "U", "r", "l">>

TagFaviconUrl == <<"f", "a", "v", "i", "c", "o", "n", "U", "r", "l">>

TagId == <<"i", "d">>

TagTitle == <<"t", "i", "t", "l", "e">>

TagType == <<"t", "y", "p", "e">>

TagUrl == <<"u", "r", "l">>

TagWebSocketDebuggerUrl == <<"w", "e", "b", "S", "o", "c", "k", "e", "t", "D", "e", "b", "u", "g", "g", "e", "r", "U", "r", "l">>

\* the struct tags of WebsocketResponseRoot and WebsocketResponseNested
TagResult == <<"r", "e", "s", "u", "l", "t">>

TagCookies == <<"c", "o", "o", "k", "i", "e", "s">>

\* the struct tags of Cookie that DebugData does not use as well
TagName == <<"n", "a", "m", "e">>

TagValue == <<"v", "a", "l", "u", "e">>

TagDomain == <<"d", "o", "m", "a", "i", "n">>

TagPath == <<"p", "a", "t", "h">>

TagExpires == <<"e", "x", "p", "i", "r", "e", "s">>

TagSize == <<"s", "i", "z", "e">>

TagHttpOnly == <<"h", "t", "t", "p", "O", "n", "l", "y">>

TagSecure == <<"s", "e", "c", "u", "r", "e">>

TagSession == <<"s", "e", "s", "s", "i", "o", "n">>

TagSameSite == <<"s", "a", "m", "e", "S", "i", "t", "e">>

TagPriority == <<"p", "r", "i", "o", "r", "i", "t", "y">>

\* some member of obj names the field with this tag
HasField(obj, tag) == \E i \in 1..Len(obj) : EqualFold(obj[i][1], tag)

\* the value of the field with this tag after the members of obj were
\* decoded into a struct in which the field held current
RECURSIVE Field(_, _, _)
Field(obj, tag, current) ==
    IF obj = <<>>
    THEN current
    ELSE Field(Tail(obj), tag,
               IF EqualFold(Head(obj)[1], tag) THEN Head(obj)[2] ELSE current)

UnmarshalDebugData(obj) ==
    [Description          |-> Field(obj, TagDescription, ""),
     DevtoolsFrontendURL  |-> Field(obj, TagDevtoolsFrontendUrl, ""),
     FaviconURL           |-> Field(obj, TagFaviconUrl, ""),
     ID                   |-> Field(obj, TagId, ""),
     Title                |-> Field(obj, TagTitle, <<>>),
     PageType             |-> Field(obj, TagType, ""),
     URL                  |-> Field(obj, TagUrl, <<>>),
     WebSocketDebuggerURL |-> Field(obj, TagWebSocketDebuggerUrl, "")]

RECURSIVE UnmarshalDebugList(_)
UnmarshalDebugList(items) ==
    IF items = <<>>
    THEN <<>>
    ELSE <<UnmarshalDebugData(Head(items))>> \o UnmarshalDebugList(Tail(items))

\* the zero value of Cookie
ZeroCookie ==
    [Name |-> <<>>, Value |-> "", Domain |-> <<>>, Path |-> "", Expires |-> 0,
     Size |-> 0, HTTPOnly |-> FALSE, Secure |-> FALSE, Session |-> FALSE,
     SameSite |-> "", Priority |-> ""]

\* the members of obj decoded into a Cookie that held current
UnmarshalCookie(obj, current) ==
    [Name     |-> Field(obj, TagName, current.Name),
     Value    |-> Field(obj, TagValue, current.Value),
     Domain   |-> Field(obj, TagDomain, current.Domain),
     Path     |-> Field(obj, TagPath, current.Path),
     Expires  |-> Field(obj, TagExpires, current.Expires),
     Size     |-> Field(obj, TagSize, current.Size),
     HTTPOnly |-> Field(obj, TagHttpOnly, current.HTTPOnly),
     Secure   |-> Field(obj, TagSecure, current.Secure),
     Session  |-> Field(obj, TagSession, current.Session),
     SameSite |-> Field(obj, TagSameSite, current.SameSite),
     Priority |-> Field(obj, TagPriority, current.Priority)]

\* A []Cookie is its length and the elements its backing array holds, of
\* which those past the length are out of sight but not erased.
NilSlice == [len |-> 0, store |-> <<>>]

\* the elements of the slice
Elements(slice) == SubSeq(slice.store, 1, slice.len)

\* an array decoded into a slice: an empty array gives a new empty slice;
\* otherwise element i of the array is decoded into element i of the
\* backing array, over what it holds, and the length becomes that of the
\* array
UnmarshalCookies(items, slice) ==
    IF items = <<>>
    THEN NilSlice
    ELSE LET n == IF Len(items) > Len(slice.store)
                  THEN Len(items)
                  ELSE Len(slice.store)
         IN  [len   |-> Len(items),
              store |-> [i \in 1..n |->
                           IF i > Len(items)
                           THEN slice.store[i]
                           ELSE UnmarshalCookie(items[i],
                                    IF i <= Len(slice.store)
                                    THEN slice.store[i]
                                    ELSE ZeroCookie)]]

\* the members of a result object decoded into WebsocketResponseNested:
\* each member named cookies is decoded into the Cookies slice
RECURSIVE UnmarshalNested(_, _)
UnmarshalNested(obj, slice) ==
    IF obj = <<>>
    THEN slice
    ELSE UnmarshalNested(Tail(obj),
             IF EqualFold(Head(obj)[1], TagCookies)
             THEN UnmarshalCookies(Head(obj)[2], slice)
             ELSE slice)

\* the members of the response decoded into the Result field: each member
\* named result is decoded into the same struct
RECURSIVE UnmarshalResult(_, _)
UnmarshalResult(json, slice) ==
    IF json = <<>>
    THEN slice
    ELSE UnmarshalResult(Tail(json),
             IF EqualFold(Head(json)[1], TagResult)
             THEN UnmarshalNested(Head(json)[2], slice)
             ELSE slice)

\* json.Unmarshal(rawResponse, &websocketResponseRoot) on a well-formed object
UnmarshalResponseRoot(json) ==
    [ID     |-> Field(json, TagId, 0),
     Result |-> [Cookies |-> Elements(UnmarshalResult(json, NilSlice))]]

(***************************************************************************)
(* The filter of PrintDebugData and DumpCookies: an entry is kept when no  *)
(* grep term was given or the term occurs in one of its two fields.        *)
(***************************************************************************)
\* KeepEntry as it would be if the second field were not searched
KeepEntryFirstFieldOnly(grepFlag, first, second, term) ==
    ~grepFlag \/ Contains(first, term)

KeepEntry(grepFlag, first, second, term) ==
    ~grepFlag \/ Contains(first, term) \/ Contains(second, term)

\* the four Printf calls of PrintDebugData for one entry
PrintedTarget(value) ==
    [kind  |-> "target",
     Title |-> value.Title,
     Type  |-> value.PageType,
     URL   |-> value.URL,
     WebSocketDebuggerURL |-> value.WebSocketDebuggerURL]

\* for _, value := range debugList { if ... { fmt.Printf(...) } }
RECURSIVE PrintDebugDataLoop(_, _)
PrintDebugDataLoop(list, term) ==
    IF list = <<>>
    THEN <<>>
    ELSE LET value == Head(list)
             rest  == PrintDebugDataLoop(Tail(list), term)
         IN  IF KeepEntry(Len(term) > 0, value.Title, value.URL, term)
             THEN <<PrintedTarget(value)>> \o rest
             ELSE rest

\* the eleven Printf calls of the human format for one cookie
PrintedCookie(value) ==
    [kind     |-> "cookie",
     name     |-> value.Name,
     value    |-> value.Value,
     domain   |-> value.Domain,
     path     |-> value.Path,
     expires  |-> value.Expires,
     size     |-> value.Size,
     httpOnly |-> value.HTTPOnly,
     secure   |-> value.Secure,
     session  |-> value.Session,
     sameSite |-> value.SameSite,
     priority |-> value.Priority]

RECURSIVE PrintCookiesLoop(_, _)
PrintCookiesLoop(cookies, term) ==
    IF cookies = <<>>
    THEN <<>>
    ELSE LET value == Head(cookies)
             rest  == PrintCookiesLoop(Tail(cookies), term)
         IN  IF KeepEntry(Len(term) > 0, value.Name, value.Domain, term)
             THEN <<PrintedCookie(value)>> \o rest
             ELSE rest

\* LightCookieOf as it would be if the expiry of the source were kept
LightCookieKeepingExpiry(value, unix) ==
    [name   |-> value.Name,
     value  |-> value.Value,
     domain |-> value.Domain,
     path   |-> value.Path,
     expirationDate |-> value.Expires]

\* LightCookie{...} built from one cookie when time.Now().Unix() returns unix
LightCookieOf(value, unix) ==
    [name   |-> value.Name,
     value  |-> value.Value,
     domain |-> value.Domain,
     path   |-> value.Path,
     expirationDate |-> unix + TenYears]

\* the loop of the modified format; times[i] is what time.Now().Unix()
\* returns while the loop is at the i-th cookie of the response
RECURSIVE LightCookieLoop(_, _, _)
LightCookieLoop(cookies, term, times) ==
    IF cookies = <<>>
    THEN <<>>
    ELSE LET value == Head(cookies)
             rest  == LightCookieLoop(Tail(cookies), term, Tail(times))
         IN  IF KeepEntry(Len(term) > 0, value.Name, value.Domain, term)
             THEN <<LightCookieOf(value, Head(times))>> \o rest
             ELSE rest

\* json.Marshal(lightCookieList): a slice nothing was appended to is nil
\* and encodes as null, any other slice as an array
MarshalLightCookies(list) ==
    IF Len(list) = 0
    THEN [kind |-> "json", null |-> TRUE,  items |-> <<>>]
    ELSE [kind |-> "json", null |-> FALSE, items |-> list]

\* RawOutput as it would be if the decoded response were encoded again
RawOutputReencoded(raw, root) ==
    [kind  |-> "raw",
     bytes |-> [wellformed |-> TRUE,
                json |-> << <<TagId, root.ID>>,
                            <<TagResult, << <<TagCookies, root.Result.Cookies>> >> >> >>,
                size |-> raw.size]]

\* fmt.Printf("%s\n", rawResponse): the bytes read from the connection
RawOutput(raw, root) == [kind |-> "raw", bytes |-> raw]

(***************************************************************************)
(* The three commands.  A command is the text written to the connection,   *)
(* a sequence of chunks of bytes.                                          *)
(***************************************************************************)
GetAllCookiesMessage == <<"{\"id\": 1, \"method\":\"Network.getAllCookies\"}">>

ClearBrowserCookiesMessage == <<"{\"id\": 1, \"method\": \"Network.clearBrowserCookies\"}">>

SetCookiesPrefix == "{\"id\": 1, \"method\":\"Network.setCookies\", \"params\":{\"cookies\":"

SetCookiesSuffix == "}}"

\* SetCookiesMessage as it would be if the content were wrapped in an array
SetCookiesMessageWrapped(content) ==
    <<SetCookiesPrefix, "[">> \o content \o <<"]", SetCookiesSuffix>>

\* fmt.Sprintf(`{"id": 1, ..., "params":{"cookies":%s}}`, content)
SetCookiesMessage(content) == <<SetCookiesPrefix>> \o content \o <<SetCookiesSuffix>>

(***************************************************************************)
(* The inputs: command line arguments, what the debug port answers, what   *)
(* the websocket peer sends, and the content of the load file.             *)
(***************************************************************************)
SeqsUpTo(S, n) == UNION { [1..k -> S] : k \in 0..n }

GrepTerms == { <<>>, <<"a">>, <<"A", "b">>, <<"A", "a">>, <<"a", "b">> }

DumpArgs == { "", "pages", "cookies" }

\* the empty string is the value of an argument that was not given
FormatArgs == { "", "raw", "modified" }

LoadArgs == { "", "cookies.json" }

ClearArgs == { "", "yes" }

\* the first object is spelled as Chromium spells it; the second spells
\* some keys in another case and has a key DebugData does not declare
TargetObjects ==
    { << <<TagDescription, "">>,
         <<TagDevtoolsFrontendUrl, "/devtools/inspector.html?ws=1">>,
         <<TagFaviconUrl, "https://mail.example.com/favicon.ico">>,
         <<TagId, "1">>,
         <<TagTitle, <<"a">> >>,
         <<TagType, "page">>,
         <<TagUrl, <<"A", "b">> >>,
         <<TagWebSocketDebuggerUrl, "ws://localhost/devtools/page/1">> >>,
      << <<<<"T", "i", "t", "l", "e">>, <<"A", "a">> >>,
         <<TagType, "background_page">>,
         <<<<"U", "R", "L">>, <<"b">> >>,
         <<<<"W", "e", "b", "S", "o", "c", "k", "e", "t", "D", "e", "b", "u", "g", "g", "e", "r", "U", "R", "L">>, "ws://localhost/devtools/page/2">>,
         <<<<"p", "a", "r", "e", "n", "t", "I", "d">>, "1">> >> }

\* what http.Get and io.ReadAll can produce
HttpResponses ==
    { [err |-> "connect", status |-> 0, body |-> [kind |-> "none", items |-> <<>>]],
      [err |-> "read", status |-> 200, body |-> [kind |-> "none", items |-> <<>>]] }
    \cup
    { [err |-> "", status |-> st, body |-> b] :
        st \in {200, 500},
        b  \in { [kind |-> "array", items |-> l] : l \in SeqsUpTo(TargetObjects, MaxTargets) }
               \cup { [kind |-> "null", items |-> <<>>],
                      [kind |-> "malformed", items |-> <<>>] } }

\* the second object spells some keys in another case, has no sameSite
\* and has a key Cookie does not declare
CookieObjects ==
    { << <<TagName, <<"a">> >>, <<TagValue, "v1">>, <<TagDomain, <<"A", "b">> >>,
         <<TagPath, "/">>, <<TagExpires, 1800000000>>, <<TagSize, 3>>,
         <<TagHttpOnly, TRUE>>, <<TagSecure, TRUE>>, <<TagSession, FALSE>>,
         <<TagSameSite, "Lax">>, <<TagPriority, "Medium">> >>,
      << <<<<"N", "a", "m", "e">>, <<"A", "a">> >>, <<TagValue, "v2">>, <<<<"D", "O", "M", "A", "I", "N">>, <<"b">> >>,
         <<TagPath, "/x">>, <<TagExpires, -1>>, <<TagSize, 4>>,
         <<<<"H", "T", "T", "P", "O", "n", "l", "y">>, FALSE>>, <<TagSecure, FALSE>>, <<TagSession, TRUE>>,
         <<TagPriority, "High">>, <<<<"s", "o", "u", "r", "c", "e", "P", "o", "r", "t">>, 443>> >> }

\* responses with id 1, with another id under a key in another case, with
\* no id, the error response, which has no result, and a response that
\* repeats its result, the second time with a cookie that has no sameSite
ResponseObjects ==
    { << <<TagId, 1>>, <<TagResult, << <<TagCookies, l>> >> >> >> :
        l \in SeqsUpTo(CookieObjects, MaxCookies) }
    \cup
    { << <<<<"I", "D">>, 2>>, <<<<"R", "e", "s", "u", "l", "t">>, << <<<<"C", "o", "o", "k", "i", "e", "s">>, l>> >> >> >> :
        l \in SeqsUpTo(CookieObjects, 1) }
    \cup
    { << <<TagResult, << <<TagCookies, l>> >> >> >> : l \in SeqsUpTo(CookieObjects, 1) }
    \cup
    { << <<TagId, 1>>, <<<<"e", "r", "r", "o", "r">>, "Network.getAllCookies wasn't found">> >> }
    \cup
    { << <<TagId, 1>>,
         <<TagResult, << <<TagCookies, <<a>> >> >> >>,
         <<TagResult, << <<TagCookies, <<b>> >> >> >> >> :
        a \in { c \in CookieObjects : HasField(c, TagSameSite) },
        b \in { c \in CookieObjects : ~HasField(c, TagSameSite) } }

\* the messages the peer can send: text that is a JSON object or text that
\* is not, of a size at the read limit or just above it
Messages ==
    { [wellformed |-> TRUE, json |-> j, size |-> n] :
        j \in ResponseObjects, n \in {ReadLimit, ReadLimit + 1} }
    \cup
    { [wellformed |-> FALSE, json |-> <<>>, size |-> n] :
        n \in {ReadLimit, ReadLimit + 1} }

NoResponse == [err |-> "", status |-> 0, body |-> [kind |-> "none", items |-> <<>>]]

NoMessage == [wellformed |-> FALSE, json |-> <<>>, size |-> 0]

NoRoot == [ID |-> 0, Result |-> [Cookies |-> <<>>]]

\* what os.ReadFile can return for the load file
FileContents ==
    { <<>>,
      <<"[", "{\"name\":\"a\",\"value\":\"b\",\"domain\":\"x.com\",\"path\":\"/\"}", "]">>,
      <<"not json">>,
      <<"]}}">> }

(***************************************************************************)
(* The state.                                                              *)
(***************************************************************************)
VARIABLES
    dump, format, grep, load, clear,  \* *dump, *format, ...: the parsed arguments
    mainAt,                \* the if statement main has reached
    pc,                    \* where the running function is
    op,                    \* the operation in progress
    resp,                  \* HTTP response GetDebugData is working on
    debugList,             \* result of the last GetDebugData
    content,               \* bytes LoadCookies read from the file
    websocketURL,          \* the address being dialled
    dialElapsed,           \* seconds since the dial context was created
    sessions,              \* every connection opened so far, in order
    rawResponse,           \* message returned by conn.ReadMessage
    websocketResponseRoot, \* its decoded form
    stdout,                \* what was printed
    exitCode,              \* -1 while the process runs
    fatalMsg,              \* message of the log.Fatalf that ended the process
    now                    \* time.Now().Unix()

args == <<dump, format, grep, load, clear>>

vars == <<dump, format, grep, load, clear, mainAt, pc, op, resp, debugList, content,
          websocketURL, dialElapsed, sessions, rawResponse,
          websocketResponseRoot, stdout, exitCode, fatalMsg, now>>

\* the parser and its arguments are declared: every argument is still empty
Init ==
    /\ dump = ""
    /\ format = ""
    /\ grep = <<>>
    /\ load = ""
    /\ clear = ""
    /\ mainAt = "dump"
    /\ pc = "parse"
    /\ op = "none"
    /\ resp = NoResponse
    /\ debugList = <<>>
    /\ content = <<>>
    /\ websocketURL = ""
    /\ dialElapsed = 0
    /\ sessions = <<>>
    /\ rawResponse = NoMessage
    /\ websocketResponseRoot = NoRoot
    /\ stdout = <<>>
    /\ exitCode = -1
    /\ fatalMsg = ""
    /\ now = StartTime

(***************************************************************************)
(* Control flow shared by the functions.                                   *)
(***************************************************************************)
\* resp is local to GetDebugData: the model forgets it at the first step
\* of the caller after GetDebugData has returned.

\* After as it would be if main loaded the file before it cleared
AfterLoadFirst(at) ==
    CASE at = "dump"  -> "load"
      [] at = "load"  -> "clear"
      [] OTHER        -> "end"

\* the if statement of main that follows the one at position at
After(at) ==
    CASE at = "dump"  -> "clear"
      [] at = "clear" -> "load"
      [] OTHER        -> "end"

\* the condition of the if statement at position at
Requested(at) ==
    CASE at = "dump"  -> dump = "pages" \/ dump = "cookies"
      [] at = "clear" -> clear # ""
      [] at = "load"  -> load # ""
      [] OTHER        -> FALSE

\* the operation the if statement at position at runs
OpAt(at) ==
    CASE at = "dump"  -> dump
      [] at = "clear" -> "clear"
      [] OTHER        -> "load"

\* Fatal as it would be if the error were logged and the function returned
FatalAsPrintf(msg) ==
    /\ pc' = "main"
    /\ mainAt' = After(mainAt)
    /\ op' = "none"
    /\ fatalMsg' = msg
    /\ UNCHANGED exitCode

\* log.Fatalf(msg): print msg and os.Exit(1); deferred calls do not run
Fatal(msg) ==
    /\ pc' = "exit"
    /\ exitCode' = 1
    /\ fatalMsg' = msg
    /\ UNCHANGED <<mainAt, op>>

\* debugList[0] on an empty slice: the runtime panics and the process
\* exits with status 2
Panic ==
    /\ pc' = "exit"
    /\ exitCode' = 2
    /\ fatalMsg' = "panic: runtime error: index out of range [0] with length 0"
    /\ UNCHANGED <<mainAt, op>>

\* the function returns to main, which goes on to its next if statement
Return ==
    /\ pc' = "main"
    /\ mainAt' = After(mainAt)
    /\ op' = "none"
    /\ UNCHANGED <<exitCode, fatalMsg>>

\* CloseLast as it would be without the deferred conn.Close()
CloseLastMissing(ss) == ss

\* deferred conn.Close() of the connection the running function opened
CloseLast(ss) == [ss EXCEPT ![Len(ss)].closed = TRUE]

(***************************************************************************)
(* main                                                                    *)
(***************************************************************************)
\* parser.Parse(os.Args) accepts the command line and sets the arguments
ParseSucceeds ==
    /\ pc = "parse"
    /\ dump' \in DumpArgs
    /\ format' \in FormatArgs
    /\ grep' \in GrepTerms
    /\ load' \in LoadArgs
    /\ clear' \in ClearArgs
    /\ pc' = "main"
    /\ UNCHANGED <<resp, mainAt, op, debugList, content, websocketURL, dialElapsed,
                   sessions, rawResponse, websocketResponseRoot, stdout,
                   exitCode, fatalMsg, now>>

\* parser.Parse(os.Args) returns an error: the usage is printed on the
\* standard output and the process exits with status 1, without log.Fatalf
ParseFails ==
    /\ pc = "parse"
    /\ stdout' = Append(stdout, [kind |-> "usage"])
    /\ exitCode' = 1
    /\ pc' = "exit"
    /\ UNCHANGED <<args, resp, mainAt, op, debugList, content, websocketURL,
                   dialElapsed, sessions, rawResponse, websocketResponseRoot,
                   fatalMsg, now>>

\* an if statement whose condition holds: call GetDebugData for it
MainCall ==
    /\ pc = "main"
    /\ mainAt # "end"
    /\ Requested(mainAt)
    /\ op' = OpAt(mainAt)
    /\ pc' = "GetDebugData"
    /\ UNCHANGED <<args, resp, mainAt, debugList, content, websocketURL, dialElapsed,
                   sessions, rawResponse, websocketResponseRoot, stdout,
                   exitCode, fatalMsg, now>>

\* an if statement whose condition does not hold
MainSkip ==
    /\ pc = "main"
    /\ mainAt # "end"
    /\ ~Requested(mainAt)
    /\ mainAt' = After(mainAt)
    /\ UNCHANGED <<args, resp, pc, op, debugList, content, websocketURL, dialElapsed,
                   sessions, rawResponse, websocketResponseRoot, stdout,
                   exitCode, fatalMsg, now>>

\* main returns: the process exits with status 0
MainReturn ==
    /\ pc = "main"
    /\ mainAt = "end"
    /\ pc' = "exit"
    /\ exitCode' = 0
    /\ UNCHANGED <<args, resp, mainAt, op, debugList, content, websocketURL,
                   dialElapsed, sessions, rawResponse, websocketResponseRoot,
                   stdout, fatalMsg, now>>

(***************************************************************************)
(* GetDebugData                                                            *)
(***************************************************************************)
\* the log.Fatalf GetDebugData reaches on this response, "" when none:
\* http.Get fails, io.ReadAll fails, or json.Unmarshal into []DebugData fails
GetDebugDataError(r) ==
    IF r.err = "connect" THEN "Failed to get debug data"
    ELSE IF r.err = "read" THEN "Failed to read response body"
    ELSE IF r.body.kind = "malformed" THEN "Failed to unmarshal JSON"
    ELSE ""

GetDebugDataFails ==
    /\ pc = "GetDebugData"
    /\ \E r \in HttpResponses :
         /\ resp' = r
         /\ GetDebugDataError(r) # ""
         /\ Fatal(GetDebugDataError(r))
    /\ UNCHANGED <<args, debugList, content, websocketURL, dialElapsed,
                   sessions, rawResponse, websocketResponseRoot, stdout, now>>

\* a body that is the JSON null decodes to the nil slice without an error
GetDebugDataReturns ==
    /\ pc = "GetDebugData"
    /\ \E r \in HttpResponses :
         /\ resp' = r
         /\ GetDebugDataError(r) = ""
         /\ debugList' = UnmarshalDebugList(r.body.items)
    /\ pc' = "call"
    /\ UNCHANGED <<args, mainAt, op, content, websocketURL, dialElapsed,
                   sessions, rawResponse, websocketResponseRoot, stdout,
                   exitCode, fatalMsg, now>>

(***************************************************************************)
(* PrintDebugData                                                          *)
(***************************************************************************)
PrintDebugData ==
    /\ pc = "call"
    /\ op = "pages"
    /\ stdout' = stdout \o PrintDebugDataLoop(debugList, grep)
    /\ resp' = NoResponse
    /\ Return
    /\ UNCHANGED <<args, debugList, content, websocketURL, dialElapsed,
                   sessions, rawResponse, websocketResponseRoot, now>>

(***************************************************************************)
(* DumpCookies, ClearCookies and LoadCookies up to the dial                *)
(***************************************************************************)
\* SelectTarget as it would be if the last entry of the list were taken
SelectTargetLast ==
    IF Len(debugList) = 0
    THEN /\ Panic
         /\ UNCHANGED <<debugList, websocketURL, dialElapsed>>
    ELSE /\ websocketURL' = debugList[Len(debugList)].WebSocketDebuggerURL
         /\ debugList' = <<>>
         /\ dialElapsed' = 0
         /\ pc' = "dial"
         /\ UNCHANGED <<mainAt, op, exitCode, fatalMsg>>

\* SelectTarget as it would be if an empty list gave the zero value, an
\* empty endpoint, instead of a panic
SelectTargetUnchecked ==
    /\ websocketURL' = IF Len(debugList) = 0
                       THEN ""
                       ELSE debugList[1].WebSocketDebuggerURL
    /\ debugList' = <<>>
    /\ dialElapsed' = 0
    /\ pc' = "dial"
    /\ UNCHANGED <<mainAt, op, exitCode, fatalMsg>>

\* websocketURL := debugList[0].WebSocketDebuggerURL and the dial context;
\* the function does not use debugList again, so the model forgets it
SelectTarget ==
    IF Len(debugList) = 0
    THEN /\ Panic
         /\ UNCHANGED <<debugList, websocketURL, dialElapsed>>
    ELSE /\ websocketURL' = debugList[1].WebSocketDebuggerURL
         /\ debugList' = <<>>
         /\ dialElapsed' = 0
         /\ pc' = "dial"
         /\ UNCHANGED <<mainAt, op, exitCode, fatalMsg>>

DumpCookiesEnter ==
    /\ pc = "call"
    /\ op = "cookies"
    /\ SelectTarget
    /\ resp' = NoResponse
    /\ UNCHANGED <<args, content, sessions, rawResponse,
                   websocketResponseRoot, stdout, now>>

ClearCookiesEnter ==
    /\ pc = "call"
    /\ op = "clear"
    /\ SelectTarget
    /\ resp' = NoResponse
    /\ UNCHANGED <<args, content, sessions, rawResponse,
                   websocketResponseRoot, stdout, now>>

\* os.ReadFile(load) fails
LoadCookiesReadFileFails ==
    /\ pc = "call"
    /\ op = "load"
    /\ Fatal("Failed to read file")
    /\ resp' = NoResponse
    /\ UNCHANGED <<args, debugList, content, websocketURL, dialElapsed,
                   sessions, rawResponse, websocketResponseRoot, stdout, now>>

\* os.ReadFile(load) returns the bytes of the file, whatever they are
LoadCookiesEnter ==
    /\ pc = "call"
    /\ op = "load"
    /\ \E bytes \in FileContents : content' = bytes
    /\ SelectTarget
    /\ resp' = NoResponse
    /\ UNCHANGED <<args, sessions, rawResponse,
                   websocketResponseRoot, stdout, now>>

(***************************************************************************)
(* websocket.DefaultDialer.DialContext(ctx, websocketURL, nil) under the   *)
(* context that expires DialTimeoutSecs after its creation.                *)
(***************************************************************************)
\* DeadlineExceeded as it would be under context.Background()
DeadlineNever(elapsed) == FALSE

\* ctx is done: the deadline of context.WithTimeout has passed
DeadlineExceeded(elapsed) == elapsed >= DialTimeoutSecs

\* the connection a successful dial returns, after conn.SetReadLimit
NewSession ==
    [op |-> op, url |-> websocketURL, readLimit |-> ReadLimit,
     sent |-> <<>>, reads |-> 0, inbound |-> 0, closed |-> FALSE]

\* the handshake completes before the deadline; the context is not
\* consulted again, so the model forgets its age
DialSucceeds ==
    /\ pc = "dial"
    /\ ~DeadlineExceeded(dialElapsed)
    /\ sessions' = Append(sessions, NewSession)
    /\ dialElapsed' = 0
    /\ pc' = "write"
    /\ UNCHANGED <<args, resp, mainAt, op, debugList, content, websocketURL,
                   rawResponse, websocketResponseRoot, stdout,
                   exitCode, fatalMsg, now>>

\* the peer refuses the connection or the handshake
DialRefused ==
    /\ pc = "dial"
    /\ ~DeadlineExceeded(dialElapsed)
    /\ Fatal("Failed to dial websocket")
    /\ UNCHANGED <<args, resp, debugList, content, websocketURL, dialElapsed,
                   sessions, rawResponse, websocketResponseRoot, stdout, now>>

\* a second passes while the dial is blocked
DialWaits ==
    /\ pc = "dial"
    /\ dialElapsed < DialTimeoutSecs
    /\ ~DeadlineExceeded(dialElapsed)
    /\ dialElapsed' = dialElapsed + 1
    /\ UNCHANGED <<args, resp, mainAt, pc, op, debugList, content, websocketURL,
                   sessions, rawResponse, websocketResponseRoot, stdout,
                   exitCode, fatalMsg, now>>

\* DialTimesOut as it would be if the blocked ReadMessage had a deadline too
DialTimesOutOrReadDeadline ==
    /\ \/ pc = "dial" /\ DeadlineExceeded(dialElapsed)
       \/ pc = "read"
    /\ Fatal(IF pc = "dial" THEN "Failed to dial websocket"
                            ELSE "Failed to read response")
    /\ UNCHANGED <<args, resp, debugList, content, websocketURL, dialElapsed,
                   sessions, rawResponse, websocketResponseRoot, stdout, now>>

\* the context expires: DialContext returns an error
DialTimesOut ==
    /\ pc = "dial"
    /\ DeadlineExceeded(dialElapsed)
    /\ Fatal("Failed to dial websocket")
    /\ UNCHANGED <<args, resp, debugList, content, websocketURL, dialElapsed,
                   sessions, rawResponse, websocketResponseRoot, stdout, now>>

(***************************************************************************)
(* conn.WriteMessage and what follows it                                   *)
(***************************************************************************)
\* the message the running function writes
Command(o) ==
    CASE o = "cookies" -> GetAllCookiesMessage
      [] o = "clear"   -> ClearBrowserCookiesMessage
      [] OTHER         -> SetCookiesMessage(content)

\* AwaitsResponse as it would be if LoadCookies read the answer
AwaitsResponseAlsoLoad(o) == o = "cookies" \/ o = "load"

\* AwaitsResponse as it would be if ClearCookies read the answer
AwaitsResponseAlsoClear(o) == o = "cookies" \/ o = "clear"

\* the functions that call conn.ReadMessage after their write
AwaitsResponse(o) == o = "cookies"

WriteFails ==
    /\ pc = "write"
    /\ Fatal("Failed to send message")
    /\ UNCHANGED <<args, resp, debugList, content, websocketURL, dialElapsed,
                   sessions, rawResponse, websocketResponseRoot, stdout, now>>

\* the write succeeds; ClearCookies and LoadCookies then return, which
\* runs their deferred conn.Close()
WriteSucceeds ==
    /\ pc = "write"
    /\ LET written == [sessions EXCEPT ![Len(sessions)].sent =
                           Append(@, Command(op))]
       IN  IF AwaitsResponse(op)
           THEN /\ sessions' = written
                /\ pc' = "read"
                /\ UNCHANGED <<mainAt, op, exitCode, fatalMsg>>
           ELSE /\ sessions' = CloseLast(written)
                /\ Return
    /\ UNCHANGED <<args, resp, debugList, content, websocketURL, dialElapsed,
                   rawResponse, websocketResponseRoot, stdout, now>>

(***************************************************************************)
(* conn.ReadMessage in DumpCookies and the rest of the function            *)
(***************************************************************************)
\* ExceedsReadLimit as it would be if no read limit were set
ExceedsNoLimit(size, limit) == FALSE

\* the connection fails a message longer than its read limit
ExceedsReadLimit(size, limit) == limit > 0 /\ size > limit

\* the call of conn.ReadMessage is counted on the connection, with the
\* size of the message that arrived for it (0 when none did)
ReadCalled(ss, size) ==
    [ss EXCEPT ![Len(ss)].reads = @ + 1, ![Len(ss)].inbound = size]

\* the connection is closed or fails before a message arrives
ReadFails ==
    /\ pc = "read"
    /\ sessions' = ReadCalled(sessions, 0)
    /\ Fatal("Failed to read response")
    /\ UNCHANGED <<args, resp, debugList, content, websocketURL, dialElapsed,
                   rawResponse, websocketResponseRoot, stdout, now>>

\* a message longer than the read limit arrives
ReadTooLong ==
    /\ pc = "read"
    /\ \E m \in Messages :
         /\ ExceedsReadLimit(m.size, sessions[Len(sessions)].readLimit)
         /\ sessions' = ReadCalled(sessions, m.size)
    /\ Fatal("Failed to read response")
    /\ UNCHANGED <<args, resp, debugList, content, websocketURL, dialElapsed,
                   rawResponse, websocketResponseRoot, stdout, now>>

\* conn.ReadMessage returns m; closing tells whether the function then
\* runs to its return, and so to its deferred conn.Close()
Received(m, closing) ==
    /\ pc = "read"
    /\ ~ExceedsReadLimit(m.size, sessions[Len(sessions)].readLimit)
    /\ rawResponse' = m
    /\ sessions' = IF closing
                   THEN CloseLast(ReadCalled(sessions, m.size))
                   ELSE ReadCalled(sessions, m.size)

\* DumpCookiesUndecodable as it would be if a response whose id is not the
\* id of the command were refused as well
DumpCookiesRejectsForeignId ==
    /\ \E m \in Messages :
         /\ Received(m, FALSE)
         /\ (~m.wellformed \/ Field(m.json, TagId, 0) # 1)
    /\ Fatal("Failed to unmarshal JSON")
    /\ UNCHANGED <<args, resp, debugList, content, websocketURL, dialElapsed,
                   websocketResponseRoot, stdout, now>>

\* json.Unmarshal(rawResponse, &websocketResponseRoot) fails
DumpCookiesUndecodable ==
    /\ \E m \in Messages :
         /\ Received(m, FALSE)
         /\ ~m.wellformed
    /\ Fatal("Failed to unmarshal JSON")
    /\ UNCHANGED <<args, resp, debugList, content, websocketURL, dialElapsed,
                   websocketResponseRoot, stdout, now>>

\* format == "raw"
DumpCookiesRaw ==
    /\ format = "raw"
    /\ \E m \in Messages :
         /\ Received(m, TRUE)
         /\ m.wellformed
         /\ websocketResponseRoot' = UnmarshalResponseRoot(m.json)
         /\ stdout' = Append(stdout, RawOutput(m, UnmarshalResponseRoot(m.json)))
    /\ Return
    /\ UNCHANGED <<args, resp, debugList, content, websocketURL, dialElapsed, now>>

\* the values successive calls of time.Now().Unix() can return, one per
\* cookie of the response
ClockReadings(n) ==
    { times \in [1..n -> now..(StartTime + MaxClockAdvance)] :
        \A i \in 1..n : \A j \in i..n : times[i] <= times[j] }

\* format == "modified"
DumpCookiesModified ==
    /\ format = "modified"
    /\ \E m \in Messages :
         /\ Received(m, TRUE)
         /\ m.wellformed
         /\ LET root == UnmarshalResponseRoot(m.json)
                n    == Len(root.Result.Cookies)
            IN  /\ websocketResponseRoot' = root
                /\ \E times \in ClockReadings(n) :
                     /\ stdout' = Append(stdout, MarshalLightCookies(
                            LightCookieLoop(root.Result.Cookies, grep, times)))
                     /\ now' = IF n = 0 THEN now ELSE times[n]
    /\ Return
    /\ UNCHANGED <<args, resp, debugList, content, websocketURL, dialElapsed>>

\* any other format: the human listing
DumpCookiesHuman ==
    /\ format # "raw"
    /\ format # "modified"
    /\ \E m \in Messages :
         /\ Received(m, TRUE)
         /\ m.wellformed
         /\ websocketResponseRoot' = UnmarshalResponseRoot(m.json)
         /\ stdout' = stdout \o PrintCookiesLoop(
                UnmarshalResponseRoot(m.json).Result.Cookies, grep)
    /\ Return
    /\ UNCHANGED <<args, resp, debugList, content, websocketURL, dialElapsed, now>>

(***************************************************************************)
(* The program.                                                            *)
(***************************************************************************)
Next ==
    \/ ParseSucceeds
    \/ ParseFails
    \/ MainCall
    \/ MainSkip
    \/ MainReturn
    \/ GetDebugDataFails
    \/ GetDebugDataReturns
    \/ PrintDebugData
    \/ DumpCookiesEnter
    \/ ClearCookiesEnter
    \/ LoadCookiesReadFileFails
    \/ LoadCookiesEnter
    \/ DialSucceeds
    \/ DialRefused
    \/ DialWaits
    \/ DialTimesOut
    \/ WriteFails
    \/ WriteSucceeds
    \/ ReadFails
    \/ ReadTooLong
    \/ DumpCookiesUndecodable
    \/ DumpCookiesRaw
    \/ DumpCookiesModified
    \/ DumpCookiesHuman

Spec == Init /\ [][Next]_vars

\* The steps of the program itself are taken when they can be; the clock
\* of the dial context runs.  Nothing is assumed of the peer.
FairSpec ==
    /\ Spec
    /\ WF_vars(DialWaits)
    /\ WF_vars(DialTimesOut)

TypeOK ==
    /\ pc \in {"parse", "main", "GetDebugData", "call", "dial", "write", "read", "exit"}
    /\ mainAt \in {"dump", "clear", "load", "end"}
    /\ op \in {"none", "pages", "cookies", "clear", "load"}
    /\ exitCode \in {-1, 0, 1, 2}
    /\ dialElapsed \in 0..DialTimeoutSecs
    /\ Len(sessions) <= 3

(***************************************************************************)
(* Properties.                                                             *)
(***************************************************************************)
\* t occurs in s: s is some prefix of s, then t, then some suffix of s
Occurs(t, s) ==
    \E i \in 0..Len(s) : \E j \in i..Len(s) :
        SubSeq(s, 1, i) \o t \o SubSeq(s, j + 1, Len(s)) = s

\* the entry with fields first and second passes the filter term t
Passes(t, first, second) == t = <<>> \/ Occurs(t, first) \/ Occurs(t, second)

\* the list of cookie objects in the text of a response
RawCookies(json) == Field(Field(json, TagResult, <<>>), TagCookies, <<>>)

\* the dump requested on the command line has returned to main
DumpReturned == mainAt # "dump" /\ dump \in {"pages", "cookies"}

\* PrintDebugData has returned and main has not called GetDebugData again
PagesJustPrinted == dump = "pages" /\ mainAt = "clear" /\ pc = "main"

PassingTargets ==
    LET Test(e) == Passes(grep, e.Title, e.URL) IN SelectSeq(debugList, Test)

PassingCookies ==
    LET Test(c) == Passes(grep, c.Name, c.Domain)
    IN  SelectSeq(websocketResponseRoot.Result.Cookies, Test)

\* the cookies shown by a dump in the human or the modified format
ShownCookies ==
    IF format = "modified" THEN stdout[1].items ELSE stdout

\* C1: the entries presented are the input entries that pass the filter, in
\* input order, none dropped, duplicated or reordered: all of them when the
\* term is empty, else those with the term as a case-sensitive substring of
\* title or url (targets) or of name or domain (cookies, human and modified
\* formats).
C1_FilterKeepsExactlyTheMatches ==
    /\ PagesJustPrinted =>
         /\ Len(stdout) = Len(PassingTargets)
         /\ \A i \in 1..Len(stdout) :
              /\ stdout[i].Title = PassingTargets[i].Title
              /\ stdout[i].URL = PassingTargets[i].URL
              /\ stdout[i].Type = PassingTargets[i].PageType
              /\ stdout[i].WebSocketDebuggerURL = PassingTargets[i].WebSocketDebuggerURL
         /\ (grep = <<>> => Len(stdout) = Len(debugList))
    /\ (DumpReturned /\ dump = "cookies" /\ format # "raw") =>
         /\ Len(ShownCookies) = Len(PassingCookies)
         /\ \A i \in 1..Len(ShownCookies) :
              /\ ShownCookies[i].name = PassingCookies[i].Name
              /\ ShownCookies[i].domain = PassingCookies[i].Domain
              /\ ShownCookies[i].value = PassingCookies[i].Value
              /\ ShownCookies[i].path = PassingCookies[i].Path
         /\ (grep = <<>> =>
               Len(ShownCookies) = Len(websocketResponseRoot.Result.Cookies))

\* a dump of two cookies under a term that only the domain of the first
\* contains: one cookie is shown, one is held back
C1_Witness ==
    /\ DumpReturned
    /\ dump = "cookies"
    /\ format = ""
    /\ grep = <<"A", "b">>
    /\ Len(websocketResponseRoot.Result.Cookies) = 2
    /\ Len(stdout) = 1
    /\ stdout[1].domain = <<"A", "b">>

\* C2: in the modified format the dump prints one reduced cookie per cookie
\* that passes the filter, in order, with the name, value, domain and path
\* of its source and an expirationDate of the time of the transcoding plus
\* 315360000 seconds, whatever the expires value or session flag of the
\* source.
C2_ModifiedRewritesExpiry ==
    (DumpReturned /\ dump = "cookies" /\ format = "modified") =>
        /\ Len(stdout) = 1
        /\ stdout[1].kind = "json"
        /\ Len(stdout[1].items) = Len(PassingCookies)
        /\ \A i \in 1..Len(stdout[1].items) :
             LET light == stdout[1].items[i]
             IN  /\ DOMAIN light = {"name", "value", "domain", "path", "expirationDate"}
                 /\ light.name = PassingCookies[i].Name
                 /\ light.value = PassingCookies[i].Value
                 /\ light.domain = PassingCookies[i].Domain
                 /\ light.path = PassingCookies[i].Path
                 /\ light.expirationDate >= StartTime + 315360000
                 /\ light.expirationDate <= now + 315360000
                 /\ light.expirationDate # PassingCookies[i].Expires

\* a session cookie (expires -1) and a persistent one are both exported,
\* the clock having advanced between the two
C2_Witness ==
    /\ DumpReturned
    /\ dump = "cookies"
    /\ format = "modified"
    /\ Len(stdout) = 1
    /\ Len(stdout[1].items) = 2
    /\ websocketResponseRoot.Result.Cookies[1].Session
    /\ websocketResponseRoot.Result.Cookies[1].Expires = -1
    /\ stdout[1].items[1].expirationDate = StartTime + 315360000
    /\ stdout[1].items[2].expirationDate = StartTime + 1 + 315360000

\* what the raw format prints for the message that was read
RawRecordOfResponse == [kind |-> "raw", bytes |-> rawResponse]

\* C3 as stated: in the raw format the dump emits the message it received,
\* byte for byte, for every received message and every filter term.
C3_RawEmitsEveryMessage ==
    (dump = "cookies" /\ format = "raw" /\ rawResponse # NoMessage) =>
        stdout = <<RawRecordOfResponse>>

\* C3, amended: in the raw format the dump emits the message it received,
\* byte for byte, for every received message that decodes as a response and
\* every filter term: neither the filter nor the decoding changes the
\* output.  A received message that does not decode ends the process with
\* the decode error before anything is emitted, and without a received
\* message nothing raw is emitted.
C3_RawIsVerbatim ==
    (dump = "cookies" /\ format = "raw") =>
        /\ (rawResponse # NoMessage /\ rawResponse.wellformed) =>
              /\ stdout = <<RawRecordOfResponse>>
              /\ DumpReturned
        /\ (rawResponse # NoMessage /\ ~rawResponse.wellformed) =>
              /\ stdout = <<>>
              /\ mainAt = "dump"
              /\ pc = "exit"
              /\ exitCode = 1
              /\ fatalMsg = "Failed to unmarshal JSON"
        /\ rawResponse = NoMessage =>
              /\ ~DumpReturned
              /\ \A i \in 1..Len(stdout) : stdout[i].kind # "raw"

\* a raw dump under a term no cookie matches, of a message that carries
\* two cookies and a key the decoder does not know
C3_Witness ==
    /\ DumpReturned
    /\ dump = "cookies"
    /\ format = "raw"
    /\ grep = <<"a", "b">>
    /\ Len(stdout) = 1
    /\ Len(RawCookies(stdout[1].bytes.json)) = 2
    /\ HasField(RawCookies(stdout[1].bytes.json)[1], <<"s", "o", "u", "r", "c", "e", "P", "o", "r", "t">>)

\* the connections LoadCookies opened
LoadSessions == { i \in 1..Len(sessions) : sessions[i].op = "load" }

\* C4: whatever the load file holds, LoadCookies writes one command, the
\* Network.setCookies text with the content of the file spliced in
\* unchanged, reads nothing, and does not fail on account of the content.
C4_LoadSplicesVerbatim ==
    /\ \A i \in LoadSessions :
         /\ sessions[i].reads = 0
         /\ Len(sessions[i].sent) <= 1
         /\ \A k \in 1..Len(sessions[i].sent) :
              LET text == sessions[i].sent[k]
              IN  /\ Len(text) = Len(content) + 2
                  /\ text[1] = "{\"id\": 1, \"method\":\"Network.setCookies\", \"params\":{\"cookies\":"
                  /\ SubSeq(text, 2, Len(text) - 1) = content
                  /\ text[Len(text)] = "}}"
    /\ (load # "" /\ mainAt = "end") =>
         /\ Cardinality(LoadSessions) = 1
         /\ \A i \in LoadSessions : Len(sessions[i].sent) = 1
    /\ (op = "load" /\ pc = "exit") =>
         fatalMsg \in { "Failed to get debug data", "Failed to read response body",
                        "Failed to unmarshal JSON", "Failed to read file",
                        "panic: runtime error: index out of range [0] with length 0",
                        "Failed to dial websocket", "Failed to send message" }

\* a file that is not JSON has been sent and the process has ended normally
C4_Witness ==
    /\ exitCode = 0
    /\ content = <<"not json">>
    /\ \E i \in LoadSessions :
         /\ Len(sessions[i].sent) = 1
         /\ sessions[i].sent[1][2] = "not json"

\* the connections ClearCookies opened
ClearSessions == { i \in 1..Len(sessions) : sessions[i].op = "clear" }

\* C5: ClearCookies reads nothing: once its command is written it has
\* returned, with the connection closed, whether or not the target answers.
C5_ClearIsFireAndForget ==
    \A i \in ClearSessions :
        /\ sessions[i].reads = 0
        /\ sessions[i].sent # <<>> =>
             /\ sessions[i].sent = << <<"{\"id\": 1, \"method\": \"Network.clearBrowserCookies\"}">> >>
             /\ sessions[i].closed
             /\ mainAt \in {"load", "end"}
             /\ op # "clear"

\* the clear command was written and the process has ended normally
C5_Witness ==
    /\ exitCode = 0
    /\ load = ""
    /\ \E i \in ClearSessions : Len(sessions[i].sent) = 1 /\ sessions[i].reads = 0

\* C6: every connection DumpCookies, ClearCookies or LoadCookies opened is
\* closed when the operation ends, on the success path and on every failure
\* path after the dial: a connection that is not closed belongs to the
\* operation that is still running.
C6_SessionClosedOnEveryExitPath ==
    \A i \in 1..Len(sessions) :
        ~sessions[i].closed =>
            /\ pc \in {"write", "read"}
            /\ i = Len(sessions)
            /\ sessions[i].op = op

\* the connections the operation at the current position of main opened
SessionsOfCurrentOp == { i \in 1..Len(sessions) : sessions[i].op = OpAt(mainAt) }

\* the place of an operation in the order in which main runs them
Position(o) ==
    CASE o = "pages"   -> 1
      [] o = "cookies" -> 1
      [] o = "clear"   -> 2
      [] o = "load"    -> 3
      [] OTHER         -> 0

\* the cookie operations requested on the command line
RequestedCookieOps ==
    (IF dump = "cookies" THEN {"cookies"} ELSE {})
    \cup (IF clear # "" THEN {"clear"} ELSE {})
    \cup (IF load # "" THEN {"load"} ELSE {})

\* C7: an operation runs its discovery, connect, command cycle to the end
\* or the process stops at the first stage that fails, with a non-zero
\* status: no later stage of the operation and no later operation has run.
\* A process that exits with status 0 has run every requested operation to
\* its end.
C7_AbortAtFirstFailure ==
    /\ fatalMsg # "" =>
         /\ pc = "exit"
         /\ exitCode \in {1, 2}
         /\ op = OpAt(mainAt)
         /\ \A i \in 1..Len(sessions) : Position(sessions[i].op) <= Position(op)
         /\ (resp # NoResponse \/ fatalMsg \in {"Failed to read file", "Failed to dial websocket"}
             \/ exitCode = 2)
                => SessionsOfCurrentOp = {}
         /\ fatalMsg = "Failed to send message" =>
              \A i \in SessionsOfCurrentOp :
                  sessions[i].sent = <<>> /\ sessions[i].reads = 0
         /\ (op = "cookies" /\ (mainAt = "dump")) => stdout = <<>>
    /\ exitCode = 0 =>
         /\ fatalMsg = ""
         /\ mainAt = "end"
         /\ { sessions[i].op : i \in 1..Len(sessions) } = RequestedCookieOps
         /\ Len(sessions) = Cardinality(RequestedCookieOps)
         /\ \A i \in 1..Len(sessions) :
              /\ Len(sessions[i].sent) = 1
              /\ sessions[i].closed
              /\ sessions[i].reads = (IF sessions[i].op = "cookies" THEN 1 ELSE 0)

\* the read of the dump failed: clear and load were requested and never ran
C7_Witness ==
    /\ fatalMsg = "Failed to read response"
    /\ clear # ""
    /\ load # ""
    /\ Len(sessions) = 1
    /\ exitCode = 1
    /\ stdout = <<>>

\* C8: GetDebugData fails, and returns no list, when the connection cannot
\* be made, when the status of the response is not a success, and when the
\* body is not a JSON array of targets.
C8_DiscoveryRejectsBadResponses ==
    (resp # NoResponse
       /\ (resp.err # "" \/ resp.status # 200 \/ resp.body.kind # "array")) =>
        /\ pc = "exit"
        /\ exitCode = 1
        /\ fatalMsg \in { "Failed to get debug data", "Failed to read response body",
                          "Failed to unmarshal JSON" }

\* C9: the dial does not block for ever: it succeeds, or it fails with the
\* dial error, at the latest when the 10 seconds of its context are over.
C9_DialTerminates ==
    /\ [](pc = "dial" => dialElapsed <= 10)
    /\ (pc = "dial") ~> (pc = "write"
                           \/ (pc = "exit" /\ fatalMsg = "Failed to dial websocket"))

\* a dial that was given up after 10 seconds
C9_Witness ==
    /\ pc = "exit"
    /\ fatalMsg = "Failed to dial websocket"
    /\ dialElapsed = 10
    /\ Len(sessions) = 0

\* C10: a message longer than 10 MiB makes the read fail and the dump
\* abort; no such message is decoded, filtered or printed, in any format.
C10_OversizedMessageAborts ==
    /\ rawResponse.size <= 10485760
    /\ \A i \in 1..Len(stdout) :
         stdout[i].kind = "raw" => stdout[i].bytes.size <= 10485760
    /\ \A i \in 1..Len(sessions) :
         sessions[i].inbound > 10485760 =>
             /\ pc = "exit"
             /\ exitCode = 1
             /\ fatalMsg = "Failed to read response"
             /\ rawResponse = NoMessage
             /\ websocketResponseRoot = NoRoot
             /\ stdout = <<>>

\* a message of 10 MiB and one byte arrived and the process stopped
C10_Witness ==
    /\ pc = "exit"
    /\ \E i \in 1..Len(sessions) : sessions[i].inbound = 10485761

\* the connections that are open
OpenSessions == { i \in 1..Len(sessions) : ~sessions[i].closed }

\* the commands written on a connection that is still open
CommandsInFlight == { <<i, k>> \in (1..Len(sessions)) \X (1..1) :
                        ~sessions[i].closed /\ k <= Len(sessions[i].sent) }

\* C11: whatever the combination of dump, clear and load, at most one
\* connection is open and at most one command is in flight at any time: the
\* connection of an operation is closed before the next operation opens one.
C11_OneSessionAtATime ==
    /\ Cardinality(OpenSessions) <= 1
    /\ Cardinality(CommandsInFlight) <= 1
    /\ \A i \in 1..Len(sessions) : Len(sessions[i].sent) <= 1
    /\ \A i \in 1..Len(sessions) : \A j \in 1..Len(sessions) :
         i < j => sessions[i].closed

\* dump, clear and load together: load has its connection open, those of
\* the dump and of clear are closed
C11_Witness ==
    /\ Len(sessions) = 3
    /\ pc = "write"
    /\ op = "load"
    /\ sessions[1].closed
    /\ sessions[2].closed
    /\ ~sessions[3].closed

\* C12: every cookie operation dials the webSocketDebuggerUrl of the first
\* entry of the list discovery returned, whatever that entry is and whatever
\* the filter term; the connection is made to the address dialled.
C12_ConnectsToFirstTarget ==
    /\ [][(pc = "call" /\ pc' = "dial") =>
            /\ Len(resp.body.items) >= 1
            /\ websocketURL' = Field(resp.body.items[1],
                                     TagWebSocketDebuggerUrl, "")]_vars
    /\ [][Len(sessions') > Len(sessions) =>
            /\ Len(sessions') = Len(sessions) + 1
            /\ sessions'[Len(sessions')].url = websocketURL
            /\ sessions'[Len(sessions')].op = op]_vars

\* a dump under a term that only the first of the two targets matches, and
\* a clear, both connected to the second target, which headed both lists
C12_Witness ==
    /\ grep = <<"A", "b">>
    /\ Len(sessions) = 2
    /\ sessions[1].op = "cookies"
    /\ sessions[1].url = "ws://localhost/devtools/page/2"
    /\ sessions[2].op = "clear"
    /\ sessions[2].url = "ws://localhost/devtools/page/2"

\* C13: the output of the modified format is a JSON array of reduced
\* cookies for every response and filter term, the empty array when the
\* response has no cookie or no cookie passes the filter.
C13_ModifiedOutputIsArray ==
    (DumpReturned /\ dump = "cookies" /\ format = "modified") =>
        /\ Len(stdout) = 1
        /\ stdout[1].kind = "json"
        /\ ~stdout[1].null

\* the texts that open a command with the id 1
EnvelopesWithId1 ==
    { "{\"id\": 1, \"method\":\"Network.getAllCookies\"}",
      "{\"id\": 1, \"method\": \"Network.clearBrowserCookies\"}",
      "{\"id\": 1, \"method\":\"Network.setCookies\", \"params\":{\"cookies\":" }

\* C14: on every connection one command, with the id 1, is written before
\* the connection is closed; ReadMessage is called at most once on a
\* connection, only by DumpCookies and only after its write succeeded;
\* ClearCookies and LoadCookies never call it.
C14_OneCommandPerSession ==
    \A i \in 1..Len(sessions) :
        /\ Len(sessions[i].sent) <= 1
        /\ sessions[i].closed => Len(sessions[i].sent) = 1
        /\ \A k \in 1..Len(sessions[i].sent) :
             sessions[i].sent[k][1] \in EnvelopesWithId1
        /\ sessions[i].reads <= 1
        /\ sessions[i].reads = 1 =>
             /\ sessions[i].op = "cookies"
             /\ Len(sessions[i].sent) = 1
        /\ sessions[i].op \in {"clear", "load"} => sessions[i].reads = 0
        /\ (sessions[i].op = "cookies" /\ sessions[i].closed) => sessions[i].reads = 1

\* a dump that wrote and read once, then a load that wrote once and did
\* not read, both connections closed
C14_Witness ==
    /\ Len(sessions) = 2
    /\ sessions[1].op = "cookies"
    /\ sessions[1].closed
    /\ Len(sessions[1].sent) = 1
    /\ sessions[1].reads = 1
    /\ sessions[2].op = "load"
    /\ sessions[2].closed
    /\ Len(sessions[2].sent) = 1
    /\ sessions[2].reads = 0

\* the message DumpCookies read is a JSON object whose id is not 1
ForeignIdReceived ==
    /\ dump = "cookies"
    /\ rawResponse # NoMessage
    /\ rawResponse.wellformed
    /\ (~HasField(rawResponse.json, TagId) \/ Field(rawResponse.json, TagId, 0) # 1)

\* C15: DumpCookies takes the first message it reads as the answer to its
\* command without looking at the id: a well-formed message whose id is not
\* 1, or that has no id, is accepted and its cookies are presented as those
\* of any other response.
C15_ResponseIdIsNotChecked ==
    ForeignIdReceived =>
        /\ DumpReturned
        /\ \A i \in 1..Len(sessions) :
             sessions[i].op = "cookies" => sessions[i].closed
        /\ websocketResponseRoot.ID # 1
        /\ Len(websocketResponseRoot.Result.Cookies)
             = Len(RawCookies(rawResponse.json))
        /\ \A i \in 1..Len(websocketResponseRoot.Result.Cookies) :
             /\ websocketResponseRoot.Result.Cookies[i].Name
                  = Field(RawCookies(rawResponse.json)[i], TagName, <<>>)
             /\ websocketResponseRoot.Result.Cookies[i].Domain
                  = Field(RawCookies(rawResponse.json)[i], TagDomain, <<>>)
        /\ format = "raw" => stdout = <<[kind |-> "raw", bytes |-> rawResponse]>>
        /\ format # "raw" =>
             /\ Len(ShownCookies) = Len(PassingCookies)
             /\ \A i \in 1..Len(ShownCookies) :
                  /\ ShownCookies[i].name = PassingCookies[i].Name
                  /\ ShownCookies[i].value = PassingCookies[i].Value

\* a response without an id was read and its cookie was listed
C15_Witness ==
    /\ ForeignIdReceived
    /\ ~HasField(rawResponse.json, TagId)
    /\ websocketResponseRoot.ID = 0
    /\ format = ""
    /\ Len(stdout) = 1
    /\ stdout[1].kind = "cookie"
    /\ exitCode = 0

\* conn.ReadMessage of the running DumpCookies returns in this step
ReadReturns ==
    /\ Len(sessions') = Len(sessions)
    /\ sessions'[Len(sessions')].reads = sessions[Len(sessions)].reads + 1

\* C16: the blocked receive of DumpCookies has no deadline.  While it waits
\* nothing is scheduled that could end the wait, and the only steps that
\* leave it are those in which ReadMessage returns (a message, a close or a
\* failure): without one DumpCookies stays there for ever.  When ReadMessage
\* does return, DumpCookies ends in the same step, by its return or by the
\* exit of the process.
C16_ReadHasNoDeadline ==
    /\ [](pc = "read" => ~ENABLED DialWaits /\ ~ENABLED DialTimesOut)
    /\ [][pc = "read" => ReadReturns]_vars
    /\ [][(pc = "read" /\ ReadReturns) =>
            \/ pc' = "main" /\ mainAt' = "clear" /\ sessions'[Len(sessions')].closed
            \/ pc' = "exit" /\ exitCode' = 1]_vars

\* the command was accepted and DumpCookies waits for the answer
C16_Witness ==
    /\ pc = "read"
    /\ op = "cookies"
    /\ dialElapsed = 0
    /\ ~sessions[Len(sessions)].closed
    /\ Len(sessions[Len(sessions)].sent) = 1
    /\ sessions[Len(sessions)].reads = 0

\* the sessions in which DumpCookies ran its whole cycle
CompletedDumpSessions ==
    { i \in 1..Len(sessions) :
        /\ sessions[i].op = "cookies"
        /\ sessions[i].sent = << <<"{\"id\": 1, \"method\":\"Network.getAllCookies\"}">> >>
        /\ sessions[i].reads = 1
        /\ sessions[i].closed }

\* the sessions in which ClearCookies sent its command and returned
CompletedClearSessions ==
    { i \in ClearSessions :
        /\ sessions[i].sent = << <<"{\"id\": 1, \"method\": \"Network.clearBrowserCookies\"}">> >>
        /\ sessions[i].closed }

\* C17: main runs dump, clear and load in this order, each to its end before
\* the next starts.  With clear and load both requested, the clear command
\* has been sent and its session closed before the load file is read and
\* before Network.setCookies is sent, so a load that fails fails after the
\* clear was sent.  With dump cookies requested too, its getAllCookies cycle
\* is complete before the clear command is sent.
C17_ClearPrecedesLoad ==
    /\ op = "load" => mainAt = "load"
    /\ op = "clear" => mainAt = "clear"
    /\ (mainAt \in {"load", "end"} /\ clear # "") =>
         /\ Cardinality(CompletedClearSessions) = 1
         /\ \A i \in CompletedClearSessions : \A j \in LoadSessions : i < j
    /\ mainAt \in {"dump", "clear"} =>
         /\ LoadSessions = {}
         /\ content = <<>>
         /\ fatalMsg # "Failed to read file"
    /\ (mainAt \in {"clear", "load", "end"} /\ dump = "cookies") =>
         /\ Cardinality(CompletedDumpSessions) = 1
         /\ \A i \in CompletedDumpSessions :
              \A j \in ClearSessions \cup LoadSessions : i < j
    /\ mainAt = "dump" => ClearSessions = {}

\* dump, clear and load were requested; the dump and the clear are done and
\* the load has failed on its file
C17_Witness ==
    /\ dump = "cookies"
    /\ clear # ""
    /\ op = "load"
    /\ pc = "exit"
    /\ fatalMsg = "Failed to read file"
    /\ Len(sessions) = 2
    /\ 1 \in CompletedDumpSessions
    /\ 2 \in CompletedClearSessions

\* the endpoints that discovery can report
DiscoveredURLs ==
    { Field(t, TagWebSocketDebuggerUrl, "") : t \in TargetObjects }

\* C18: with an empty target list DumpCookies, ClearCookies and LoadCookies
\* end the process abnormally at once, by the panic of debugList[0] (or, for
\* a load, by the failure to read the file that comes before it): no
\* connection is opened and nothing is sent.  Every connect is made with the
\* endpoint of a discovered target.
C18_EmptyTargetListAborts ==
    /\ [][(pc = "call" /\ op \in {"cookies", "clear", "load"} /\ debugList = <<>>) =>
            /\ pc' = "exit"
            /\ exitCode' \in {1, 2}
            /\ exitCode' = 1 => (op = "load" /\ fatalMsg' = "Failed to read file")
            /\ sessions' = sessions
            /\ websocketURL' = websocketURL
            /\ stdout' = stdout]_vars
    /\ [](exitCode = 2 =>
            /\ pc = "exit"
            /\ op \in {"cookies", "clear", "load"}
            /\ debugList = <<>>
            /\ SessionsOfCurrentOp = {})
    /\ [](pc = "dial" => websocketURL \in DiscoveredURLs)
    /\ [](\A i \in 1..Len(sessions) : sessions[i].url \in DiscoveredURLs)

\* a clear that found no target: the process has panicked with no
\* connection made
C18_Witness ==
    /\ exitCode = 2
    /\ op = "clear"
    /\ debugList = <<>>
    /\ sessions = <<>>
    /\ websocketURL = ""

=============================================================================
